---- MODULE Spec2Model ----
(***************************************************************************)
(* The worker pool of threadpool/src/main.rs: ThreadPool::new, execute,    *)
(* the Worker loop and Drop for ThreadPool, as an interleaving state       *)
(* machine of the pool-owning thread, the producers and the workers.       *)
(* Further down: the demo main of that file, lz77_compress and             *)
(* build_huffman_tree of gzip-rs/src/main.rs, and quicksort_hoare of       *)
(* quicksort/src/main.rs, each a sequential program with its own           *)
(* specification.                                                          *)
(***************************************************************************)
EXTENDS Integers, Sequences, FiniteSets, TLC

(* ---- bounds of the model ---------------------------------------------- *)
MaxSize == 2
MaxJobs == 3
MaxProducers == 2

WorkerIds == 0 .. (MaxSize - 1)
JobIds == 1 .. MaxJobs
Producers == 1 .. MaxProducers

(* Panic payloads a job body can unwind with: a &'static str              *)
(* (panic!("lit")), an owned String (panic!("{}", x)) and any other type   *)
(* (panic_any(42)).                                                        *)
Payloads == {"str", "String", "other"}

NoWorker == -1
NoJob == 0
RecvError == -1

VARIABLES
    size,        \* the argument of ThreadPool::new
    poolPc,      \* position of the thread that owns the pool
    workers,     \* ThreadPool.workers: Vec<Worker>, as the sequence of ids
    sender,      \* ThreadPool.sender is Some(_)
    queue,       \* the mpsc channel's buffer, oldest job first
    lock,        \* holder of the Mutex around the Receiver, or NoWorker
    pc,          \* position of each worker thread
    job,         \* per worker: the value of `job` (a job id, RecvError, NoJob)
    joining,     \* the worker popped by Drop and being joined, or NoWorker
    submitted,   \* per job: what execute returned ("none" before the call)
    runs,        \* per job: how many times a worker has called job()
    result,      \* per job: "none", "returned" or the payload it panicked with
    log,         \* per job: the form of the error! line its panic produced
    poisoned,    \* the poison flag of the Mutex around the Receiver
    handler,     \* per worker: what join() on its JoinHandle yields
    hangs,       \* the jobs whose body never returns (`loop {}`)
    lz,          \* gzip-rs: the locals of one call of lz77_compress
    huff,        \* gzip-rs: the locals of one call of build_huffman_tree
    qs           \* quicksort: the array and the call stack of quicksort_hoare

vars == <<size, poolPc, workers, sender, queue, lock, pc, job, joining,
          submitted, runs, result, log, poisoned, handler, hangs, lz, huff, qs>>

poolVars == <<size, poolPc, workers, sender, joining>>
workerVars == <<lock, pc, job>>
jobVars == <<runs, result, log>>
submitVars == <<submitted>>
threadVars == <<poisoned, handler>>
algoVars == <<lz, huff, qs>>

(* The single-threaded programs of the repository are not running while    *)
(* the pool is, and the other way round.                                   *)
LzIdle == [pc |-> "idle"]
HuffIdle == [pc |-> "idle"]
QsIdle == [pc |-> "idle"]

(* ---- helpers ----------------------------------------------------------- *)

(* The spec's three worker states over the code's positions.               *)
WAITING(w) == pc[w] \in {"lock", "recv", "unlock"}
EXECUTING(w) == pc[w] = "running"
TERMINATED(w) == pc[w] = "terminated"

(* Faulty variant: the pool keeps a Receiver handle of its own. *)
ReceiverAlive_KeptByPool == TRUE

(* The Receiver lives in an Arc: one handle is the local `receiver` of    *)
(* ThreadPool::new, one clone is moved into each worker's closure and is   *)
(* dropped when that thread ends. The channel is connected on the          *)
(* receiving side while some handle is left.                               *)
ReceiverAlive ==
    \/ poolPc = "new"
    \/ \E w \in DOMAIN pc : pc[w] \notin {"unspawned", "terminated"}

(* The jobs are MaxJobs closures dealt round-robin to the producer       *)
(* threads; each producer submits its own closures in increasing order.    *)
ProducerOf(j) == ((j - 1) % MaxProducers) + 1
Pending(p) == {j \in DOMAIN submitted : ProducerOf(j) = p /\ submitted[j] = "none"}
NextJob(p) == CHOOSE j \in Pending(p) : \A k \in Pending(p) : j <= k

(* The message of the error! line for a panic payload: downcast_ref to     *)
(* &str succeeds only for a &'static str payload; everything else is       *)
(* printed with {:?} of Box<dyn Any + Send>, which shows no content.       *)
PanicMessage(payload) ==
    IF payload = "str" THEN "text" ELSE "opaque"

(* ---- ThreadPool::new --------------------------------------------------- *)

Init ==
    /\ size \in 0 .. MaxSize
    /\ poolPc = "new"
    /\ workers = << >>
    /\ sender = TRUE
    /\ queue = << >>
    /\ lock = NoWorker
    /\ pc = [w \in WorkerIds |-> "unspawned"]
    /\ job = [w \in WorkerIds |-> NoJob]
    /\ joining = NoWorker
    /\ submitted = [j \in JobIds |-> "none"]
    /\ runs = [j \in JobIds |-> 0]
    /\ result = [j \in JobIds |-> "none"]
    /\ log = [j \in JobIds |-> "none"]
    /\ poisoned = FALSE
    /\ handler = [w \in WorkerIds |-> "none"]
    /\ hangs = {}
    /\ lz = LzIdle
    /\ huff = HuffIdle
    /\ qs = QsIdle

(* One iteration of `for i in 0..size`: Worker::new(i, ..) spawns the      *)
(* thread, which starts running at once, and the worker is inserted at i.  *)
WorkerNew(i) ==
    /\ poolPc = "new"
    /\ i = Len(workers)
    /\ i < size
    /\ workers' = Append(workers, i)
    /\ pc' = [pc EXCEPT ![i] = "lock"]
    /\ handler' = [handler EXCEPT ![i] = "running"]
    /\ UNCHANGED <<size, poolPc, sender, queue, lock, job, joining, poisoned>>
    /\ UNCHANGED <<submitVars, jobVars>>
    /\ UNCHANGED <<hangs, algoVars>>

(* Faulty variant: the loop stops one worker short (`0..size - 1`). *)
ThreadPoolNew_Early ==
    /\ poolPc = "new"
    /\ Len(workers) >= size - 1
    /\ poolPc' = "ready"
    /\ UNCHANGED <<size, workers, sender, queue, joining>>
    /\ UNCHANGED <<workerVars, submitVars, jobVars>>
    /\ UNCHANGED threadVars
    /\ UNCHANGED <<hangs, algoVars>>

(* The loop is over: new returns the pool and drops its local `receiver`.  *)
ThreadPoolNew ==
    /\ poolPc = "new"
    /\ Len(workers) = size
    /\ poolPc' = "ready"
    /\ UNCHANGED <<size, workers, sender, queue, joining>>
    /\ UNCHANGED <<workerVars, submitVars, jobVars>>
    /\ UNCHANGED threadVars
    /\ UNCHANGED <<hangs, algoVars>>

(* ---- ThreadPool::execute ----------------------------------------------- *)

(* Faulty variant: execute does not look at self.sender. *)
ThreadPoolExecute_NoSenderCheck(p) ==
    /\ poolPc \in {"ready", "drop", "join"}
    /\ Pending(p) # {}
    /\ LET j == NextJob(p) IN
         IF ReceiverAlive
           THEN /\ queue' = Append(queue, j)
                /\ submitted' = [submitted EXCEPT ![j] = "Ok"]
           ELSE /\ queue' = queue
                /\ submitted' = [submitted EXCEPT ![j] = "Err"]
    /\ UNCHANGED <<poolVars, workerVars, jobVars>>
    /\ UNCHANGED threadVars
    /\ UNCHANGED <<hangs, algoVars>>

(* Faulty variant: a channel of capacity 1 and try_send. *)
ThreadPoolExecute_Bounded(p) ==
    /\ poolPc \in {"ready", "drop", "join"}
    /\ Pending(p) # {}
    /\ LET j == NextJob(p) IN
         IF sender /\ ReceiverAlive /\ Len(queue) < 1
           THEN /\ queue' = Append(queue, j)
                /\ submitted' = [submitted EXCEPT ![j] = "Ok"]
           ELSE /\ queue' = queue
                /\ submitted' = [submitted EXCEPT ![j] = "Err"]
    /\ UNCHANGED <<poolVars, workerVars, jobVars>>
    /\ UNCHANGED threadVars
    /\ UNCHANGED <<hangs, algoVars>>

(* Producer p calls execute with its next closure. With the sender gone   *)
(* the call returns the "shutting down" error; otherwise send() enqueues   *)
(* the job, or fails with SendError when no Receiver handle is left.       *)
(* Calls made while drop runs are included: they are the case the None     *)
(* arm is written for.                                                     *)
ThreadPoolExecute(p) ==
    /\ poolPc \in {"ready", "drop", "join"}
    /\ Pending(p) # {}
    /\ LET j == NextJob(p) IN
         IF sender /\ ReceiverAlive
           THEN /\ queue' = Append(queue, j)
                /\ submitted' = [submitted EXCEPT ![j] = "Ok"]
           ELSE /\ queue' = queue
                /\ submitted' = [submitted EXCEPT ![j] = "Err"]
    /\ UNCHANGED <<poolVars, workerVars, jobVars>>
    /\ UNCHANGED threadVars
    /\ UNCHANGED <<hangs, algoVars>>

(* ---- the worker loop --------------------------------------------------- *)

(* Faulty variant: the Receiver is shared without the Mutex. *)
WorkerLock_NoExclusion(w) ==
    /\ pc[w] = "lock"
    /\ lock' = w
    /\ pc' = [pc EXCEPT ![w] = "recv"]
    /\ UNCHANGED <<poolVars, queue, job, submitVars, jobVars>>
    /\ UNCHANGED threadVars
    /\ UNCHANGED <<hangs, algoVars>>

(* receiver.lock().unwrap(): lock() blocks until the Mutex is free. On a   *)
(* poisoned Mutex it returns Err, unwrap panics outside catch_unwind, the  *)
(* guard inside the error is dropped and the thread ends by unwinding.     *)
WorkerLock(w) ==
    /\ pc[w] = "lock"
    /\ lock = NoWorker
    /\ IF poisoned
         THEN /\ lock' = lock
              /\ pc' = [pc EXCEPT ![w] = "terminated"]
              /\ handler' = [handler EXCEPT ![w] = "Err"]
         ELSE /\ lock' = w
              /\ pc' = [pc EXCEPT ![w] = "recv"]
              /\ handler' = handler
    /\ UNCHANGED <<poolVars, queue, job, submitVars, jobVars, poisoned>>
    /\ UNCHANGED <<hangs, algoVars>>

(* Faulty variant: recv hands out the oldest job without removing it. *)
WorkerRecvOk_Peek(w) ==
    /\ pc[w] = "recv"
    /\ queue # << >>
    /\ job' = [job EXCEPT ![w] = Head(queue)]
    /\ pc' = [pc EXCEPT ![w] = "unlock"]
    /\ UNCHANGED <<poolVars, queue, lock, submitVars, jobVars>>
    /\ UNCHANGED threadVars
    /\ UNCHANGED <<hangs, algoVars>>

(* Faulty variant: recv hands out the newest job (a stack instead of a queue). *)
WorkerRecvOk_Lifo(w) ==
    /\ pc[w] = "recv"
    /\ queue # << >>
    /\ job' = [job EXCEPT ![w] = queue[Len(queue)]]
    /\ queue' = SubSeq(queue, 1, Len(queue) - 1)
    /\ pc' = [pc EXCEPT ![w] = "unlock"]
    /\ UNCHANGED <<poolVars, lock, submitVars, jobVars>>
    /\ UNCHANGED threadVars
    /\ UNCHANGED <<hangs, algoVars>>

(* lock.recv() returns the oldest queued job. *)
WorkerRecvOk(w) ==
    /\ pc[w] = "recv"
    /\ queue # << >>
    /\ job' = [job EXCEPT ![w] = Head(queue)]
    /\ queue' = Tail(queue)
    /\ pc' = [pc EXCEPT ![w] = "unlock"]
    /\ UNCHANGED <<poolVars, lock, submitVars, jobVars>>
    /\ UNCHANGED threadVars
    /\ UNCHANGED <<hangs, algoVars>>

(* Faulty variant: recv fails as soon as the Sender is dropped, queued jobs or not. *)
WorkerRecvErr_Undrained(w) ==
    /\ pc[w] = "recv"
    /\ ~sender
    /\ job' = [job EXCEPT ![w] = RecvError]
    /\ pc' = [pc EXCEPT ![w] = "unlock"]
    /\ UNCHANGED <<poolVars, queue, lock, submitVars, jobVars>>
    /\ UNCHANGED threadVars
    /\ UNCHANGED <<hangs, algoVars>>

(* Faulty variant: recv gives up on an empty buffer (recv_timeout). *)
WorkerRecvErr_Timeout(w) ==
    /\ pc[w] = "recv"
    /\ queue = << >>
    /\ job' = [job EXCEPT ![w] = RecvError]
    /\ pc' = [pc EXCEPT ![w] = "unlock"]
    /\ UNCHANGED <<poolVars, queue, lock, submitVars, jobVars>>
    /\ UNCHANGED threadVars
    /\ UNCHANGED <<hangs, algoVars>>

(* lock.recv() returns Err once the buffer is empty and the only Sender    *)
(* has been dropped; until then it blocks.                                 *)
WorkerRecvErr(w) ==
    /\ pc[w] = "recv"
    /\ queue = << >>
    /\ ~sender
    /\ job' = [job EXCEPT ![w] = RecvError]
    /\ pc' = [pc EXCEPT ![w] = "unlock"]
    /\ UNCHANGED <<poolVars, queue, lock, submitVars, jobVars>>
    /\ UNCHANGED threadVars
    /\ UNCHANGED <<hangs, algoVars>>

(* Faulty variant: the worker hands the job to a detached thread and loops. *)
WorkerUnlock_Detach(w) ==
    /\ pc[w] = "unlock"
    /\ lock' = NoWorker
    /\ job' = [job EXCEPT ![w] = NoJob]
    /\ IF job[w] = RecvError
         THEN /\ pc' = [pc EXCEPT ![w] = "terminated"]
              /\ handler' = [handler EXCEPT ![w] = "Ok"]
              /\ runs' = runs
         ELSE /\ handler' = handler
              /\ pc' = [pc EXCEPT ![w] = "lock"]
              /\ runs' = [runs EXCEPT ![job[w]] = @ + 1]
    /\ UNCHANGED <<poolVars, queue, submitVars, result, log, poisoned>>
    /\ UNCHANGED <<hangs, algoVars>>

(* Faulty variant: the guard is leaked, the Mutex stays locked. *)
WorkerUnlock_LeakGuard(w) ==
    /\ pc[w] = "unlock"
    /\ lock' = lock
    /\ IF job[w] = RecvError
         THEN /\ pc' = [pc EXCEPT ![w] = "terminated"]
              /\ handler' = [handler EXCEPT ![w] = "Ok"]
              /\ job' = [job EXCEPT ![w] = NoJob]
              /\ runs' = runs
         ELSE /\ handler' = handler
              /\ pc' = [pc EXCEPT ![w] = "running"]
              /\ job' = job
              /\ runs' = [runs EXCEPT ![job[w]] = @ + 1]
    /\ UNCHANGED <<poolVars, queue, submitVars, result, log, poisoned>>
    /\ UNCHANGED <<hangs, algoVars>>

(* End of the block: the guard is dropped, then `match job`. Ok(job)       *)
(* enters catch_unwind and calls job(); Err breaks out of the loop and     *)
(* the thread ends.                                                        *)
WorkerUnlock(w) ==
    /\ pc[w] = "unlock"
    /\ lock' = NoWorker
    /\ IF job[w] = RecvError
         THEN /\ pc' = [pc EXCEPT ![w] = "terminated"]
              /\ handler' = [handler EXCEPT ![w] = "Ok"]
              /\ job' = [job EXCEPT ![w] = NoJob]
              /\ runs' = runs
         ELSE /\ handler' = handler
              /\ pc' = [pc EXCEPT ![w] = "running"]
              /\ job' = job
              /\ runs' = [runs EXCEPT ![job[w]] = @ + 1]
    /\ UNCHANGED <<poolVars, queue, submitVars, result, log, poisoned>>
    /\ UNCHANGED <<hangs, algoVars>>

(* job() returns: catch_unwind yields Ok and the loop starts over. A body  *)
(* in `hangs` never gets here.                                             *)
JobReturn(w) ==
    /\ pc[w] = "running"
    /\ job[w] \notin hangs
    /\ result' = [result EXCEPT ![job[w]] = "returned"]
    /\ job' = [job EXCEPT ![w] = NoJob]
    /\ pc' = [pc EXCEPT ![w] = "lock"]
    /\ UNCHANGED <<poolVars, queue, lock, submitVars, runs, log>>
    /\ UNCHANGED threadVars
    /\ UNCHANGED <<hangs, algoVars>>

(* Faulty variant: no catch_unwind, the panic unwinds the worker thread,  *)
(* poisoning the Mutex if the thread holds the guard.                      *)
JobPanic_Unwinds(w, payload) ==
    /\ pc[w] = "running"
    /\ job[w] \notin hangs
    /\ result' = [result EXCEPT ![job[w]] = payload]
    /\ job' = [job EXCEPT ![w] = NoJob]
    /\ pc' = [pc EXCEPT ![w] = "terminated"]
    /\ handler' = [handler EXCEPT ![w] = "Err"]
    /\ poisoned' = (poisoned \/ lock = w)
    /\ lock' = IF lock = w THEN NoWorker ELSE lock
    /\ UNCHANGED <<poolVars, queue, submitVars, runs, log>>
    /\ UNCHANGED <<hangs, algoVars>>

(* Faulty variant: the worker puts a job that panicked back on the queue. *)
JobPanic_Retry(w, payload) ==
    /\ pc[w] = "running"
    /\ job[w] \notin hangs
    /\ result' = [result EXCEPT ![job[w]] = payload]
    /\ log' = [log EXCEPT ![job[w]] = PanicMessage(payload)]
    /\ queue' = Append(queue, job[w])
    /\ job' = [job EXCEPT ![w] = NoJob]
    /\ pc' = [pc EXCEPT ![w] = "lock"]
    /\ UNCHANGED <<poolVars, lock, submitVars, runs>>
    /\ UNCHANGED threadVars
    /\ UNCHANGED <<hangs, algoVars>>

(* job() panics: catch_unwind yields Err(e), the worker logs the panic     *)
(* and the loop starts over. The guard was dropped at the end of the       *)
(* block before job() was called, so nothing is poisoned.                  *)
JobPanic(w, payload) ==
    /\ pc[w] = "running"
    /\ job[w] \notin hangs
    /\ result' = [result EXCEPT ![job[w]] = payload]
    /\ log' = [log EXCEPT ![job[w]] = PanicMessage(payload)]
    /\ job' = [job EXCEPT ![w] = NoJob]
    /\ pc' = [pc EXCEPT ![w] = "lock"]
    /\ UNCHANGED <<poolVars, queue, lock, submitVars, runs>>
    /\ UNCHANGED threadVars
    /\ UNCHANGED <<hangs, algoVars>>

(* ---- Drop for ThreadPool ----------------------------------------------- *)

(* Faulty variant: drop goes on to the joins without dropping the sender. *)
DropSender_Kept ==
    /\ poolPc = "ready"
    /\ poolPc' = "drop"
    /\ UNCHANGED <<size, workers, sender, joining, queue>>
    /\ UNCHANGED <<workerVars, submitVars, jobVars>>
    /\ UNCHANGED threadVars
    /\ UNCHANGED <<hangs, algoVars>>

(* drop(self.sender.take()) *)
DropSender ==
    /\ poolPc = "ready"
    /\ sender' = FALSE
    /\ poolPc' = "drop"
    /\ UNCHANGED <<size, workers, joining, queue>>
    /\ UNCHANGED <<workerVars, submitVars, jobVars>>
    /\ UNCHANGED threadVars
    /\ UNCHANGED <<hangs, algoVars>>

(* while let Some(worker) = self.workers.pop() *)
DropPop ==
    /\ poolPc = "drop"
    /\ workers # << >>
    /\ joining' = workers[Len(workers)]
    /\ workers' = SubSeq(workers, 1, Len(workers) - 1)
    /\ poolPc' = "join"
    /\ UNCHANGED <<size, sender, queue>>
    /\ UNCHANGED <<workerVars, submitVars, jobVars>>
    /\ UNCHANGED threadVars
    /\ UNCHANGED <<hangs, algoVars>>

(* Faulty variant: the handle is dropped instead of joined. *)
DropJoin_Detached ==
    /\ poolPc = "join"
    /\ joining' = NoWorker
    /\ poolPc' = "drop"
    /\ UNCHANGED <<size, workers, sender, queue>>
    /\ UNCHANGED <<workerVars, submitVars, jobVars>>
    /\ UNCHANGED threadVars
    /\ UNCHANGED <<hangs, algoVars>>

(* worker.handler.join() returns when the worker's thread has ended. *)
DropJoin ==
    /\ poolPc = "join"
    /\ pc[joining] = "terminated"
    /\ joining' = NoWorker
    /\ poolPc' = "drop"
    /\ UNCHANGED <<size, workers, sender, queue>>
    /\ UNCHANGED <<workerVars, submitVars, jobVars>>
    /\ UNCHANGED threadVars
    /\ UNCHANGED <<hangs, algoVars>>

(* pop() returned None: drop returns. *)
DropReturn ==
    /\ poolPc = "drop"
    /\ workers = << >>
    /\ poolPc' = "done"
    /\ UNCHANGED <<size, workers, sender, joining, queue>>
    /\ UNCHANGED <<workerVars, submitVars, jobVars>>
    /\ UNCHANGED threadVars
    /\ UNCHANGED <<hangs, algoVars>>

(* ---- specification ----------------------------------------------------- *)

Next ==
    \/ \E i \in WorkerIds : WorkerNew(i)
    \/ ThreadPoolNew
    \/ \E p \in Producers : ThreadPoolExecute(p)
    \/ \E w \in WorkerIds : WorkerLock(w)
    \/ \E w \in WorkerIds : WorkerRecvOk(w)
    \/ \E w \in WorkerIds : WorkerRecvErr(w)
    \/ \E w \in WorkerIds : WorkerUnlock(w)
    \/ \E w \in WorkerIds : JobReturn(w)
    \/ \E w \in WorkerIds, payload \in Payloads : JobPanic(w, payload)
    \/ DropSender
    \/ DropPop
    \/ DropJoin
    \/ DropReturn

Spec == Init /\ [][Next]_vars

(* Scheduling the code can rely on: every spawned thread that can take a   *)
(* step eventually takes one, a job body eventually returns or panics,     *)
(* and the owner thread goes on through new and, once it has entered      *)
(* drop, through drop. Nothing obliges a producer to call execute or the   *)
(* owner to drop the pool.                                                 *)
JobEnds(w) == JobReturn(w) \/ \E payload \in Payloads : JobPanic(w, payload)

(* The steps of one worker thread; its position enables at most one.      *)
WorkerStep(w) ==
    \/ WorkerLock(w) \/ WorkerRecvOk(w) \/ WorkerRecvErr(w)
    \/ WorkerUnlock(w) \/ JobEnds(w)

(* The steps of the owner thread inside new and inside drop. *)
OwnerStep ==
    \/ \E i \in WorkerIds : WorkerNew(i)
    \/ ThreadPoolNew
    \/ DropPop \/ DropJoin \/ DropReturn

Fairness ==
    /\ \A w \in WorkerIds : WF_vars(WorkerStep(w))
    /\ WF_vars(OwnerStep)

FairSpec == Init /\ [][Next]_vars /\ Fairness

(* A pool one of whose jobs has a body that never returns; the other      *)
(* bodies end, and the threads are scheduled as in FairSpec.               *)
HangInit ==
    /\ size \in 1 .. MaxSize
    /\ poolPc = "new"
    /\ workers = << >>
    /\ sender = TRUE
    /\ queue = << >>
    /\ lock = NoWorker
    /\ pc = [w \in WorkerIds |-> "unspawned"]
    /\ job = [w \in WorkerIds |-> NoJob]
    /\ joining = NoWorker
    /\ submitted = [j \in JobIds |-> "none"]
    /\ runs = [j \in JobIds |-> 0]
    /\ result = [j \in JobIds |-> "none"]
    /\ log = [j \in JobIds |-> "none"]
    /\ poisoned = FALSE
    /\ handler = [w \in WorkerIds |-> "none"]
    /\ hangs \in {{j} : j \in JobIds}
    /\ lz = LzIdle
    /\ huff = HuffIdle
    /\ qs = QsIdle

HangSpec == HangInit /\ [][Next]_vars /\ Fairness

TypeOK ==
    /\ size \in 0 .. MaxSize
    /\ poolPc \in {"new", "ready", "drop", "join", "done"}
    /\ sender \in BOOLEAN
    /\ lock \in WorkerIds \cup {NoWorker}
    /\ \A j \in JobIds : submitted[j] \in {"none", "Ok", "Err"}
    /\ \A w \in WorkerIds :
         pc[w] \in {"unspawned", "lock", "recv", "unlock", "running", "terminated"}
    /\ poisoned \in BOOLEAN
    /\ \A w \in WorkerIds : handler[w] \in {"none", "running", "Ok", "Err"}
    /\ hangs \subseteq JobIds

(* ---- main: the demo ----------------------------------------------------- *)

MainSize == 4
MainJobs == 5

MainWorkers == 0 .. (MainSize - 1)
MainWords == 1 .. MainJobs

(* main is about to call ThreadPool::new(4); its five closures, one per    *)
(* word, log and sleep and so return.                                      *)
MainInit ==
    /\ size = MainSize
    /\ poolPc = "new"
    /\ workers = << >>
    /\ sender = TRUE
    /\ queue = << >>
    /\ lock = NoWorker
    /\ pc = [w \in MainWorkers |-> "unspawned"]
    /\ job = [w \in MainWorkers |-> NoJob]
    /\ joining = NoWorker
    /\ submitted = [j \in MainWords |-> "none"]
    /\ runs = [j \in MainWords |-> 0]
    /\ result = [j \in MainWords |-> "none"]
    /\ log = [j \in MainWords |-> "none"]
    /\ poisoned = FALSE
    /\ handler = [w \in MainWorkers |-> "none"]
    /\ hangs = {}
    /\ lz = LzIdle
    /\ huff = HuffIdle
    /\ qs = QsIdle

(* One iteration of the for loop: main's thread calls pool.execute with    *)
(* the closure of the next word, in the order of the array.                *)
MainExecute ==
    /\ poolPc = "ready"
    /\ \E p \in Producers :
         /\ Pending(p) # {}
         /\ \A q \in Producers : \A k \in Pending(q) : NextJob(p) <= k
         /\ ThreadPoolExecute(p)

(* The block ends after the loop: pool goes out of scope and drop runs.    *)
MainDrop ==
    /\ \A j \in MainWords : submitted[j] # "none"
    /\ DropSender

(* info!(target: "MAIN", "Goodbye") *)
MainGoodbye ==
    /\ poolPc = "done"
    /\ poolPc' = "goodbye"
    /\ UNCHANGED <<size, workers, sender, joining, queue>>
    /\ UNCHANGED <<workerVars, submitVars, jobVars>>
    /\ UNCHANGED threadVars
    /\ UNCHANGED <<hangs, algoVars>>

MainNext ==
    \/ \E i \in MainWorkers : WorkerNew(i)
    \/ ThreadPoolNew
    \/ MainExecute
    \/ \E w \in MainWorkers : WorkerLock(w)
    \/ \E w \in MainWorkers : WorkerRecvOk(w)
    \/ \E w \in MainWorkers : WorkerRecvErr(w)
    \/ \E w \in MainWorkers : WorkerUnlock(w)
    \/ \E w \in MainWorkers : JobReturn(w)
    \/ MainDrop
    \/ DropPop
    \/ DropJoin
    \/ DropReturn
    \/ MainGoodbye

MainSpec == MainInit /\ [][MainNext]_vars

(* ---- gzip-rs: lz77_compress -------------------------------------------- *)

MaxByte == 2
MaxDataLen == 6
MaxWindow == 4
MaxLookahead == 4

Bytes == 1 .. MaxByte

(* The arguments lz77_compress is called with. *)
LzData == UNION {[1 .. n -> Bytes] : n \in 0 .. MaxDataLen}

(* The pool, not constructed. *)
PoolIdle ==
    /\ size = 0
    /\ poolPc = "new"
    /\ workers = << >>
    /\ sender = TRUE
    /\ queue = << >>
    /\ lock = NoWorker
    /\ pc = [w \in WorkerIds |-> "unspawned"]
    /\ job = [w \in WorkerIds |-> NoJob]
    /\ joining = NoWorker
    /\ submitted = [j \in JobIds |-> "none"]
    /\ runs = [j \in JobIds |-> 0]
    /\ result = [j \in JobIds |-> "none"]
    /\ log = [j \in JobIds |-> "none"]
    /\ poisoned = FALSE
    /\ handler = [w \in WorkerIds |-> "none"]
    /\ hangs = {}

poolState == <<size, poolPc, workers, sender, queue, lock, pc, job, joining,
               submitted, runs, result, log, poisoned, handler, hangs>>

Literal(byte) == [type |-> "Literal", byte |-> byte]
Reference(length, distance) ==
    [type |-> "Reference", length |-> length, distance |-> distance]

(* The inner while loop: the number of bytes that agree from i and from    *)
(* pos on, at most lookahead_size, not reading past the end of data.       *)
(* Positions are 0-based as in the code; data[k + 1] is the code's data[k]. *)
RECURSIVE MatchLength(_, _, _, _, _)
MatchLength(data, i, pos, lookahead_size, length) ==
    IF /\ length < lookahead_size
       /\ pos + length < Len(data)
       /\ data[i + length + 1] = data[pos + length + 1]
      THEN MatchLength(data, i, pos, lookahead_size, length + 1)
      ELSE length

(* `for i in search_start..pos`: a later start replaces the best match     *)
(* only when it is strictly longer.                                        *)
RECURSIVE BestMatch(_, _, _, _, _)
BestMatch(data, pos, lookahead_size, i, best) ==
    IF i >= pos THEN best
    ELSE LET length == MatchLength(data, i, pos, lookahead_size, 0) IN
         BestMatch(data, pos, lookahead_size, i + 1,
                   IF length > best.length
                     THEN [length |-> length, distance |-> pos - i]
                     ELSE best)

(* pos.saturating_sub(window_size) *)
SearchStart(pos, window_size) ==
    IF pos >= window_size THEN pos - window_size ELSE 0

(* Faulty variant: a reference needs a match of more than 3 bytes. *)
NextToken_Over3(data, pos, window_size, lookahead_size) ==
    LET best == BestMatch(data, pos, lookahead_size,
                          SearchStart(pos, window_size),
                          [length |-> 0, distance |-> 0])
    IN IF best.length > 3
         THEN Reference(best.length, best.distance)
         ELSE Literal(data[pos + 1])

(* The token pushed by one iteration of `while pos < data.len()`. *)
NextToken(data, pos, window_size, lookahead_size) ==
    LET best == BestMatch(data, pos, lookahead_size,
                          SearchStart(pos, window_size),
                          [length |-> 0, distance |-> 0])
    IN IF best.length >= 3
         THEN Reference(best.length, best.distance)
         ELSE Literal(data[pos + 1])

LzInit ==
    /\ PoolIdle
    /\ huff = HuffIdle
    /\ qs = QsIdle
    /\ \E data \in LzData, window_size \in 0 .. MaxWindow,
          lookahead_size \in 0 .. MaxLookahead :
         lz = [pc |-> "loop", data |-> data, window_size |-> window_size,
               lookahead_size |-> lookahead_size, pos |-> 0, tokens |-> << >>]

(* One iteration of the outer loop. *)
Lz77Step ==
    /\ lz.pc = "loop"
    /\ lz.pos < Len(lz.data)
    /\ LET token == NextToken(lz.data, lz.pos, lz.window_size, lz.lookahead_size)
       IN lz' = [lz EXCEPT
                   !.tokens = Append(@, token),
                   !.pos = IF token.type = "Reference"
                             THEN @ + token.length ELSE @ + 1]
    /\ UNCHANGED <<poolState, huff, qs>>

(* The loop condition fails: tokens is returned. *)
Lz77Return ==
    /\ lz.pc = "loop"
    /\ lz.pos >= Len(lz.data)
    /\ lz' = [lz EXCEPT !.pc = "done"]
    /\ UNCHANGED <<poolState, huff, qs>>

LzNext == Lz77Step \/ Lz77Return

LzSpec == LzInit /\ [][LzNext]_vars

(* ---- gzip-rs: build_huffman_tree --------------------------------------- *)

MaxSymbols == 3
MaxFreq == 3

Symbols == 1 .. MaxSymbols

(* The frequency maps huffman_encode builds: each symbol that occurs is    *)
(* mapped to the number of its occurrences.                                *)
FrequencyMaps == UNION {[S -> 1 .. MaxFreq] : S \in SUBSET Symbols}

Leaf(symbol, freq) == [kind |-> "Leaf", symbol |-> symbol, freq |-> freq]
Internal(left, right) ==
    [kind |-> "Internal", left |-> left, right |-> right,
     freq |-> left.freq + right.freq]

(* The orders in which HashMap::iter can yield the keys. *)
IterOrders(S) ==
    {o \in [1 .. Cardinality(S) -> S] : \A a, b \in DOMAIN o : a # b => o[a] # o[b]}

(* Faulty variant: the sort is ascending in freq. *)
Rank_Ascending(nodes, i) ==
    1 + Cardinality({j \in DOMAIN nodes :
                       \/ nodes[j].freq < nodes[i].freq
                       \/ nodes[j].freq = nodes[i].freq /\ j < i})

(* The place of nodes[i] after the stable sort by Reverse(freq): behind    *)
(* every node of greater freq and every earlier node of equal freq.        *)
Rank(nodes, i) ==
    1 + Cardinality({j \in DOMAIN nodes :
                       \/ nodes[j].freq > nodes[i].freq
                       \/ nodes[j].freq = nodes[i].freq /\ j < i})

(* nodes.sort_by_key(|n| Reverse(n.freq())) *)
SortByKey(nodes) ==
    [k \in DOMAIN nodes |-> nodes[CHOOSE i \in DOMAIN nodes : Rank(nodes, i) = k]]

HuffInit ==
    /\ PoolIdle
    /\ lz = LzIdle
    /\ qs = QsIdle
    /\ \E frequencies \in FrequencyMaps :
         huff = [pc |-> "start", frequencies |-> frequencies,
                 nodes |-> << >>, tree |-> << >>]

(* frequencies.is_empty(): return None. *)
HuffmanEmpty ==
    /\ huff.pc = "start"
    /\ DOMAIN huff.frequencies = {}
    /\ huff' = [huff EXCEPT !.pc = "done"]
    /\ UNCHANGED <<poolState, lz, qs>>

(* The leaves are collected in the map's iteration order. *)
HuffmanLeaves ==
    /\ huff.pc = "start"
    /\ DOMAIN huff.frequencies # {}
    /\ \E o \in IterOrders(DOMAIN huff.frequencies) :
         huff' = [huff EXCEPT
                    !.pc = "loop",
                    !.nodes = [k \in DOMAIN o |-> Leaf(o[k], huff.frequencies[o[k]])]]
    /\ UNCHANGED <<poolState, lz, qs>>

(* One iteration of `while nodes.len() > 1`: sort, pop right, pop left,    *)
(* push the internal node.                                                 *)
HuffmanMerge ==
    /\ huff.pc = "loop"
    /\ Len(huff.nodes) > 1
    /\ LET sorted == SortByKey(huff.nodes)
           n == Len(sorted)
           right == sorted[n]
           left == sorted[n - 1]
       IN huff' = [huff EXCEPT
                     !.nodes = Append(SubSeq(sorted, 1, n - 2), Internal(left, right))]
    /\ UNCHANGED <<poolState, lz, qs>>

(* nodes.pop(): the tree is Some(root), kept as the one-element sequence. *)
HuffmanReturn ==
    /\ huff.pc = "loop"
    /\ Len(huff.nodes) <= 1
    /\ huff' = [huff EXCEPT
                  !.pc = "done",
                  !.tree = IF huff.nodes = << >> THEN << >>
                           ELSE <<huff.nodes[Len(huff.nodes)]>>,
                  !.nodes = IF huff.nodes = << >> THEN << >>
                            ELSE SubSeq(huff.nodes, 1, Len(huff.nodes) - 1)]
    /\ UNCHANGED <<poolState, lz, qs>>

HuffNext == HuffmanEmpty \/ HuffmanLeaves \/ HuffmanMerge \/ HuffmanReturn

(* The call runs on: a step that can be taken is taken. *)
HuffSpec == HuffInit /\ [][HuffNext]_vars /\ WF_vars(HuffNext)

(* ---- quicksort: quicksort_hoare ----------------------------------------- *)

MaxArrLen == 3
MaxValue == 3
MaxDepth == 8

(* The arrays quicksort_hoare is called with; i32 values are only compared. *)
QsInputs == UNION {[1 .. n -> 1 .. MaxValue] : n \in 0 .. MaxArrLen}

(* Indices are 0-based as in the code; arr[k + 1] is the code's arr[k].     *)
Swap(arr, a, b) == [arr EXCEPT ![a + 1] = arr[b + 1], ![b + 1] = arr[a + 1]]

QsInit ==
    /\ PoolIdle
    /\ lz = LzIdle
    /\ huff = HuffIdle
    /\ \E input \in QsInputs :
         qs = [pc |-> "start", input |-> input, arr |-> input, stack |-> << >>,
               low |-> 0, high |-> 0, pivot |-> 0, i |-> 0, j |-> 0]

(* A call of quick_sort_hoare_range(arr, low, high) from the call site     *)
(* `at`: the caller's locals go on the stack. A stack of MaxDepth frames   *)
(* is full: the next call overflows it and the process is aborted.         *)
Called(at, low, high) ==
    IF Len(qs.stack) >= MaxDepth
      THEN [qs EXCEPT !.pc = "overflow"]
      ELSE [qs EXCEPT
              !.stack = Append(@, [at |-> at, low |-> qs.low, high |-> qs.high,
                                   pivot |-> qs.pivot]),
              !.low = low, !.high = high, !.pc = "range"]

(* quicksort_hoare: arrays of length 0 and 1 are returned as they are.     *)
QuicksortHoare ==
    /\ qs.pc = "start"
    /\ qs' = IF Len(qs.arr) <= 1
               THEN [qs EXCEPT !.pc = "done"]
               ELSE Called("top", 0, Len(qs.arr) - 1)
    /\ UNCHANGED <<poolState, lz, huff>>

(* quick_sort_hoare_range tests low < high and enters partition_hoare up   *)
(* to the outer loop: the middle element is swapped to low.                *)
QuickSortHoareRange ==
    /\ qs.pc = "range"
    /\ qs' = IF qs.low < qs.high
               THEN [qs EXCEPT
                       !.arr = Swap(@, qs.low + (qs.high - qs.low) \div 2, qs.low),
                       !.i = qs.low, !.j = qs.high + 1, !.pc = "scan_i"]
               ELSE [qs EXCEPT !.pc = "return"]
    /\ UNCHANGED <<poolState, lz, huff>>

(* One iteration of the first inner loop. *)
PartitionScanI ==
    /\ qs.pc = "scan_i"
    /\ LET i == qs.i + 1 IN
         qs' = [qs EXCEPT
                  !.i = i,
                  !.pc = IF i > qs.high \/ qs.arr[i + 1] >= qs.arr[qs.low + 1]
                           THEN "scan_j" ELSE "scan_i"]
    /\ UNCHANGED <<poolState, lz, huff>>

(* One iteration of the second inner loop; j is a usize, so `j -= 1` at 0  *)
(* panics (or wraps and the index panics).                                 *)
PartitionScanJ ==
    /\ qs.pc = "scan_j"
    /\ qs' = IF qs.j = 0
               THEN [qs EXCEPT !.pc = "panic"]
               ELSE LET j == qs.j - 1 IN
                    [qs EXCEPT
                       !.j = j,
                       !.pc = IF qs.arr[j + 1] <= qs.arr[qs.low + 1]
                                THEN "compare" ELSE "scan_j"]
    /\ UNCHANGED <<poolState, lz, huff>>

(* `if i >= j`: the pivot is swapped to j and j returned into `pivot` of   *)
(* the caller; otherwise arr[i] and arr[j] are swapped and the outer loop  *)
(* goes on.                                                                *)
PartitionSwap ==
    /\ qs.pc = "compare"
    /\ qs' = IF qs.i >= qs.j
               THEN [qs EXCEPT !.arr = Swap(@, qs.low, qs.j),
                               !.pivot = qs.j, !.pc = "left"]
               ELSE [qs EXCEPT !.arr = Swap(@, qs.i, qs.j), !.pc = "scan_i"]
    /\ UNCHANGED <<poolState, lz, huff>>

(* `if pivot > 0 { quick_sort_hoare_range(arr, low, pivot) }` *)
RangeLeft ==
    /\ qs.pc = "left"
    /\ qs' = IF qs.pivot > 0
               THEN Called("left", qs.low, qs.pivot)
               ELSE [qs EXCEPT !.pc = "right"]
    /\ UNCHANGED <<poolState, lz, huff>>

(* `if pivot + 1 < high { quick_sort_hoare_range(arr, pivot + 1, high) }` *)
RangeRight ==
    /\ qs.pc = "right"
    /\ qs' = IF qs.pivot + 1 < qs.high
               THEN Called("right", qs.pivot + 1, qs.high)
               ELSE [qs EXCEPT !.pc = "return"]
    /\ UNCHANGED <<poolState, lz, huff>>

(* quick_sort_hoare_range returns to its call site. *)
RangeReturn ==
    /\ qs.pc = "return"
    /\ LET frame == qs.stack[Len(qs.stack)] IN
         qs' = [qs EXCEPT
                  !.stack = SubSeq(@, 1, Len(@) - 1),
                  !.low = frame.low, !.high = frame.high, !.pivot = frame.pivot,
                  !.pc = CASE frame.at = "top" -> "done"
                           [] frame.at = "left" -> "right"
                           [] frame.at = "right" -> "return"]
    /\ UNCHANGED <<poolState, lz, huff>>

QsNext ==
    \/ QuicksortHoare
    \/ QuickSortHoareRange
    \/ PartitionScanI
    \/ PartitionScanJ
    \/ PartitionSwap
    \/ RangeLeft
    \/ RangeRight
    \/ RangeReturn

QsSpec == QsInit /\ [][QsNext]_vars

(* ---- derived sets ------------------------------------------------------ *)

Accepted == {j \in JobIds : submitted[j] = "Ok"}
Rejected == {j \in JobIds : submitted[j] = "Err"}
InFlight == {j \in JobIds : runs[j] > 0 /\ result[j] = "none"}
Finished == {j \in JobIds : result[j] # "none"}
Panicked == {j \in JobIds : result[j] \in Payloads}
Queued == {queue[k] : k \in 1 .. Len(queue)}
Holders(j) == {w \in WorkerIds : job[w] = j}

(* ---- claims ------------------------------------------------------------ *)

(* C1: in a pool of size N >= 1 no job is ever run twice or held by two    *)
(* workers, and once Drop has returned every job that execute accepted     *)
(* has been run exactly once, so the number of runs equals the number of   *)
(* accepted jobs.                                                          *)
C1_ExactlyOnce ==
    size >= 1 =>
      /\ \A j \in JobIds : runs[j] <= 1 /\ Cardinality(Holders(j)) <= 1
      /\ poolPc = "done" =>
           /\ \A j \in Accepted : runs[j] = 1
           /\ Cardinality({j \in JobIds : runs[j] = 1}) = Cardinality(Accepted)

C1_Witness ==
    /\ poolPc = "done"
    /\ size >= 2
    /\ Cardinality(Accepted) = MaxJobs
    /\ \E a, b \in Accepted : ProducerOf(a) # ProducerOf(b)

(* C2: once a job has panicked, no worker is terminated for as long as     *)
(* the sender exists, the worker that ran it is back in its loop, and      *)
(* every accepted job, the later ones included, has completed when Drop    *)
(* returns.                                                                *)
C2_PanicIsolated ==
    Panicked # {} =>
      /\ sender => \A w \in WorkerIds : ~TERMINATED(w)
      /\ poolPc = "done" => Accepted \subseteq Finished

C2_Witness ==
    /\ size = 2
    /\ sender
    /\ result[1] \in Payloads
    /\ \A j \in 2 .. 3 : result[j] = "returned"
    /\ \A w \in 0 .. 1 : WAITING(w)

(* C3: a call of execute made after the sender has been taken returns the  *)
(* error and changes neither the queue nor any worker; a rejected job is   *)
(* never queued, never held by a worker and never run.                     *)
C3_RejectedAfterShutdown ==
    /\ [](\A j \in Rejected : runs[j] = 0 /\ j \notin Queued /\ Holders(j) = {})
    /\ [][\A j \in JobIds :
            (~sender /\ submitted[j] = "none" /\ submitted'[j] # "none") =>
              /\ submitted'[j] = "Err"
              /\ queue' = queue
              /\ pc' = pc /\ job' = job /\ lock' = lock]_vars

C3_Witness ==
    /\ size >= 1
    /\ ~sender
    /\ Rejected # {}
    /\ queue # << >>
    /\ \E w \in WorkerIds : EXECUTING(w)

(* C4: taking the sender leaves the queue and the running jobs as they     *)
(* are, and when Drop has returned the queue is empty and every accepted   *)
(* job has finished, by returning or by a caught panic.                    *)
C4_ShutdownDrains ==
    /\ [](poolPc = "done" =>
            /\ queue = << >>
            /\ InFlight = {}
            /\ Accepted \subseteq Finished)
    /\ [][(sender /\ ~sender') =>
            (queue' = queue /\ pc' = pc /\ job' = job /\ result' = result)]_vars

C4_Witness ==
    /\ poolPc \in {"drop", "join"}
    /\ Len(queue) >= 1
    /\ InFlight # {}
    /\ Panicked # {}

(* C5: when Drop has returned the worker vector is empty and each of the   *)
(* N workers has terminated; none is waiting or executing.                 *)
C5_AllJoined ==
    poolPc = "done" =>
      /\ workers = << >>
      /\ \A w \in WorkerIds : w < size => TERMINATED(w)
      /\ \A w \in WorkerIds : ~WAITING(w) /\ ~EXECUTING(w)

C5_Witness ==
    /\ poolPc = "done"
    /\ size >= 2
    /\ Accepted # {}

(* C6: the number of jobs that have been started and have not finished     *)
(* never exceeds the pool size.                                            *)
C6_BoundedParallelism ==
    Cardinality(InFlight) <= size

C6_Witness ==
    /\ size >= 2
    /\ Cardinality(InFlight) = size
    /\ queue # << >>

(* C7: with pool size 1, a job submitted after another job of the same     *)
(* producer is not started before the earlier one has finished.            *)
C7_FifoAtSizeOne ==
    size = 1 =>
      \A a, b \in Accepted :
        (a < b /\ ProducerOf(a) = ProducerOf(b) /\ runs[b] > 0)
          => a \in Finished

C7_Witness ==
    /\ size = 1
    /\ \E a, b \in Accepted :
         /\ a < b /\ ProducerOf(a) = ProducerOf(b)
         /\ result[a] \in Payloads
         /\ runs[b] = 1

(* C8: in a pool of size >= 1 whose sender exists, every call of execute   *)
(* returns Ok and appends the job to the queue.                            *)
C8_SubmitSucceeds ==
    [][\A j \in JobIds :
         (size >= 1 /\ sender /\ submitted[j] = "none" /\ submitted'[j] # "none") =>
           /\ submitted'[j] = "Ok"
           /\ queue' = Append(queue, j)]_vars

C8_Witness ==
    /\ size >= 1
    /\ sender
    /\ Panicked # {}
    /\ \E w \in WorkerIds : EXECUTING(w)
    /\ queue # << >>
    /\ Accepted # {}

(* C9: every job that execute accepted is eventually dequeued and started, *)
(* once, whether or not the pool is ever dropped: again and again a state  *)
(* is reached in which each job accepted so far has been started exactly   *)
(* once (an accepted job stays accepted, so each is started after its      *)
(* acceptance).                                                            *)
C9_EventuallyStarted ==
    []<>(\A j \in JobIds : submitted[j] = "Ok" => runs[j] = 1)

C9_Witness ==
    /\ sender
    /\ poolPc = "ready"
    /\ Cardinality(Accepted) = MaxJobs
    /\ \A j \in JobIds : runs[j] = 1

(* C10: once drop has begun, the owner or some worker can always take a    *)
(* step until drop returns, and eventually every worker has terminated     *)
(* and drop has returned.                                                  *)
ShutdownStep ==
    \/ DropPop \/ DropJoin \/ DropReturn
    \/ \E w \in WorkerIds : WorkerStep(w)

C10_ShutdownTerminates ==
    /\ [](poolPc \in {"drop", "join"} => ENABLED ShutdownStep)
    /\ (poolPc \in {"drop", "join"}) ~>
         (poolPc = "done" /\ \A w \in WorkerIds : w < size => TERMINATED(w))

C10_Witness ==
    /\ poolPc = "done"
    /\ size >= 2
    /\ Cardinality(Finished) >= 2

(* C11: lz77_compress returns a Reference token exactly when some position *)
(* of the input repeats, for 3 bytes or more, bytes that start at most     *)
(* window_size before it and lookahead_size allows a match of 3; without   *)
(* such a repetition every token is a Literal. In particular s.s with      *)
(* |s| >= 3 <= window_size, lookahead_size yields a Reference.             *)
HasRepetition(data, window_size, lookahead_size) ==
    /\ lookahead_size >= 3
    /\ \E i, p \in 0 .. (Len(data) - 1) :
         /\ i < p
         /\ p - i <= window_size
         /\ p + 3 <= Len(data)
         /\ \A k \in 1 .. 3 : data[i + k] = data[p + k]

IsDoubled(data) ==
    /\ Len(data) >= 6
    /\ Len(data) % 2 = 0
    /\ \A k \in 1 .. (Len(data) \div 2) : data[k] = data[k + Len(data) \div 2]

HasReference(tokens) ==
    \E k \in 1 .. Len(tokens) : tokens[k].type = "Reference"

C11_ReferenceIffRepetition ==
    lz.pc = "done" =>
      /\ HasReference(lz.tokens)
           <=> HasRepetition(lz.data, lz.window_size, lz.lookahead_size)
      /\ (/\ IsDoubled(lz.data)
          /\ lz.window_size >= Len(lz.data) \div 2
          /\ lz.lookahead_size >= Len(lz.data) \div 2)
           => HasReference(lz.tokens)

C11_Witness ==
    /\ lz.pc = "done"
    /\ lz.data = <<1, 2, 1, 1, 2, 1>>
    /\ lz.window_size = 3
    /\ lz.lookahead_size = 3
    /\ HasReference(lz.tokens)

(* C12: build_huffman_tree returns, with None exactly for the empty map;   *)
(* for a non-empty map it returns one root that holds every symbol of the  *)
(* map and the sum of the frequencies; every iteration of the loop merges  *)
(* two nodes of lowest frequency and leaves one node fewer.                *)
RECURSIVE SymbolsOf(_)
SymbolsOf(node) ==
    IF node.kind = "Leaf" THEN {node.symbol}
    ELSE SymbolsOf(node.left) \cup SymbolsOf(node.right)

RECURSIVE SumOf(_, _)
SumOf(f, S) ==
    IF S = {} THEN 0
    ELSE LET x == CHOOSE x \in S : TRUE IN f[x] + SumOf(f, S \ {x})

MergedLowest ==
    LET merged == huff.nodes'[Len(huff.nodes')]
    IN /\ Len(huff.nodes') = Len(huff.nodes) - 1
       /\ merged.kind = "Internal"
       /\ \A k \in 1 .. (Len(huff.nodes') - 1) :
            /\ merged.left.freq <= huff.nodes'[k].freq
            /\ merged.right.freq <= huff.nodes'[k].freq

C12_HuffmanTree ==
    /\ <>(huff.pc = "done")
    /\ [](huff.pc = "done" =>
            /\ huff.tree = << >> <=> DOMAIN huff.frequencies = {}
            /\ huff.nodes = << >>
            /\ huff.tree # << >> =>
                 /\ SymbolsOf(huff.tree[1]) = DOMAIN huff.frequencies
                 /\ huff.tree[1].freq
                      = SumOf(huff.frequencies, DOMAIN huff.frequencies))
    /\ [][(huff.pc = "loop" /\ huff.pc' = "loop") => MergedLowest]_vars

C12_Witness ==
    /\ huff.pc = "done"
    /\ DOMAIN huff.frequencies = Symbols
    /\ huff.tree # << >>
    /\ huff.tree[1].kind = "Internal"

(* C13: a worker only ever goes from WAITING to EXECUTING with a received  *)
(* job, from EXECUTING to WAITING when that job has ended, and from        *)
(* WAITING to TERMINATED when the queue is closed and empty; it never goes *)
(* from EXECUTING to TERMINATED and never leaves TERMINATED. (A worker     *)
(* that is not spawned yet becomes WAITING.)                               *)
StateOf(position) ==
    CASE position \in {"lock", "recv", "unlock"} -> "WAITING"
      [] position = "running" -> "EXECUTING"
      [] position = "terminated" -> "TERMINATED"
      [] OTHER -> "UNSPAWNED"

C13_WorkerStateMachine ==
    [][\A w \in WorkerIds :
         LET from == StateOf(pc[w])
             to == StateOf(pc'[w])
         IN from # to =>
              \/ from = "UNSPAWNED" /\ to = "WAITING"
              \/ from = "WAITING" /\ to = "EXECUTING" /\ job'[w] \in JobIds
              \/ /\ from = "EXECUTING" /\ to = "WAITING"
                 /\ result'[job[w]] # "none"
              \/ /\ from = "WAITING" /\ to = "TERMINATED"
                 /\ queue = << >> /\ ~sender]_vars

C13_Witness ==
    /\ \E w \in WorkerIds : TERMINATED(w)
    /\ Panicked # {}
    /\ \E j \in JobIds : result[j] = "returned"

(* C14: while the sender exists no spawned worker has terminated, and once *)
(* new has returned all N workers are WAITING or EXECUTING; a worker has   *)
(* received the error, or has terminated, only with the sender gone and    *)
(* the queue empty.                                                        *)
C14_AliveUntilClosedAndEmpty ==
    /\ sender =>
         \A w \in WorkerIds :
           /\ pc[w] # "unspawned" => (WAITING(w) \/ EXECUTING(w))
           /\ (poolPc # "new" /\ w < size) => (WAITING(w) \/ EXECUTING(w))
    /\ \A w \in WorkerIds :
         (TERMINATED(w) \/ job[w] = RecvError) => (~sender /\ queue = << >>)

C14_Witness ==
    /\ \E w \in WorkerIds : TERMINATED(w)
    /\ \E w \in WorkerIds : EXECUTING(w)
    /\ Cardinality(Accepted) = MaxJobs

(* C15: Drop has dropped the sender before it pops or joins any worker:    *)
(* while the sender exists no worker has been popped, and while Drop is    *)
(* blocked in a join nothing is added to the queue and the joined worker,  *)
(* if it waits in recv on the empty queue, can receive the error.          *)
C15_SenderDroppedBeforeJoin ==
    /\ [](sender => (joining = NoWorker /\ poolPc \in {"new", "ready"}))
    /\ [](sender /\ poolPc = "ready" => Len(workers) = size)
    /\ []((poolPc = "join" /\ pc[joining] = "recv" /\ queue = << >>)
            => ENABLED WorkerRecvErr(joining))
    /\ [][poolPc = "join" => Len(queue') <= Len(queue)]_vars

C15_Witness ==
    /\ poolPc = "join"
    /\ pc[joining] = "recv"
    /\ queue = << >>
    /\ Rejected # {}

(* C16: a job that panicked has been run once, is not in the queue and is  *)
(* held by no worker; the step in which it panics changes neither the      *)
(* queue, the sender, the owner's position, the results of execute nor     *)
(* another worker; and an execute called later with the sender present     *)
(* still returns Ok.                                                       *)
C16_PanicNotRetried ==
    /\ [](\A j \in Panicked : runs[j] = 1 /\ j \notin Queued /\ Holders(j) = {})
    /\ [][\A j \in JobIds :
            (result[j] = "none" /\ result'[j] \in Payloads) =>
              /\ queue' = queue /\ sender' = sender /\ poolPc' = poolPc
              /\ submitted' = submitted /\ workers' = workers
              /\ \A w \in WorkerIds : job[w] # j => pc'[w] = pc[w]]_vars
    /\ [][\A j \in JobIds :
            (/\ Panicked # {} /\ sender
             /\ submitted[j] = "none" /\ submitted'[j] # "none")
              => submitted'[j] = "Ok"]_vars

C16_Witness ==
    /\ poolPc = "done"
    /\ Cardinality(Panicked) >= 2
    /\ Cardinality(Accepted) = MaxJobs

(* C17: for any pool size, of two accepted jobs of one producer the later  *)
(* one has left the queue only if the earlier one has.                     *)
C17_FifoPerProducer ==
    \A a, b \in Accepted :
      (a < b /\ ProducerOf(a) = ProducerOf(b) /\ b \notin Queued)
        => a \notin Queued

C17_Witness ==
    /\ size >= 2
    /\ \E a, b \in Accepted :
         /\ a < b /\ ProducerOf(a) = ProducerOf(b)
         /\ a \in InFlight
         /\ b \in Finished

(* C18: no worker that runs a job holds the Mutex of the Receiver; the     *)
(* holder is in the receive step.                                          *)
C18_LockOnlyForDequeue ==
    \A w \in WorkerIds :
      /\ EXECUTING(w) => lock # w
      /\ lock = w => pc[w] \in {"recv", "unlock"}

C18_Witness ==
    /\ size >= 2
    /\ \A w \in 0 .. 1 : EXECUTING(w)
    /\ lock = NoWorker

(* C19: at most one worker is inside the receive step and it is the Mutex  *)
(* holder; a job leaves the queue only into the hands of the holder; and   *)
(* every accepted job is in exactly one place: queued once, held by one    *)
(* worker, or finished.                                                    *)
Places(j) ==
    Cardinality({k \in 1 .. Len(queue) : queue[k] = j})
      + Cardinality(Holders(j))
      + (IF j \in Finished THEN 1 ELSE 0)

C19_MutualExclusion ==
    /\ [](Cardinality({w \in WorkerIds : pc[w] \in {"recv", "unlock"}}) <= 1)
    /\ [](\A w \in WorkerIds : pc[w] \in {"recv", "unlock"} <=> lock = w)
    /\ [](\A j \in JobIds : Places(j) = (IF j \in Accepted THEN 1 ELSE 0))
    /\ [][Len(queue') < Len(queue) =>
            /\ lock # NoWorker
            /\ pc[lock] = "recv"
            /\ job'[lock] = Head(queue)
            /\ queue' = Tail(queue)]_vars

C19_Witness ==
    /\ \E w \in WorkerIds : pc[w] = "unlock" /\ job[w] \in JobIds
    /\ \E w \in WorkerIds : pc[w] = "lock"
    /\ queue # << >>

(* C20: the error! line of a panic shows the text of every payload that    *)
(* carries text, a &str or a String, and is opaque only for other          *)
(* payloads.                                                               *)
C20_TextualPayloadLogged ==
    \A j \in JobIds :
      /\ result[j] \in {"str", "String"} => log[j] = "text"
      /\ result[j] = "other" => log[j] = "opaque"

(* C21: ThreadPool::new(0) returns a pool; that pool has no worker, every   *)
(* call of execute on it returns an error (the only Receiver handle went   *)
(* away when new returned), nothing is queued or run, and drop returns     *)
(* without waiting for anything.                                           *)
C21_ZeroSizeRejectsAll ==
    size = 0 =>
      /\ poolPc = "new" => ENABLED ThreadPoolNew
      /\ workers = << >>
      /\ queue = << >>
      /\ \A j \in JobIds : submitted[j] # "Ok" /\ runs[j] = 0
      /\ poolPc = "drop" => ENABLED DropReturn

C21_Witness ==
    /\ size = 0
    /\ poolPc = "ready"
    /\ sender
    /\ Rejected = JobIds

(* C21 as stated: a pool of size 0 accepts jobs for as long as its sender  *)
(* exists and runs none of them.                                           *)
C21_ZeroSizeAcceptsJobs ==
    size = 0 =>
      /\ \A j \in JobIds : runs[j] = 0
      /\ sender => Rejected = {}

(* C23: when new returns, the worker vector holds the ids 0 .. size-1 in   *)
(* order, each of these threads is started and waiting, no other thread    *)
(* exists and the sender is present; ever after, the vector changes only   *)
(* by the pop of Drop, which no call of execute and no worker step makes.  *)
C23_WorkerSet ==
    /\ [][(poolPc = "new" /\ poolPc' = "ready") =>
            /\ workers' = [k \in 1 .. size |-> k - 1]
            /\ sender'
            /\ \A w \in WorkerIds :
                 IF w < size THEN pc'[w] \in {"lock", "recv", "unlock"}
                             ELSE pc'[w] = "unspawned"]_vars
    /\ [](poolPc = "ready" => workers = [k \in 1 .. size |-> k - 1] /\ sender)
    /\ [][(poolPc # "new" /\ workers' # workers) =>
            /\ poolPc = "drop" /\ poolPc' = "join"
            /\ workers' = SubSeq(workers, 1, Len(workers) - 1)
            /\ submitted' = submitted
            /\ pc' = pc]_vars

C23_Witness ==
    /\ poolPc = "ready"
    /\ size >= 2
    /\ Len(workers) = size
    /\ Finished # {}
    /\ \E w \in WorkerIds : EXECUTING(w)

(* C25: whatever jobs return or panic, the Mutex is never poisoned, every  *)
(* receiver.lock().unwrap() yields the guard, no worker thread ends by     *)
(* unwinding, and each handler.join() of Drop returns Ok.                  *)
C25_NoPoisonNoUnwind ==
    /\ [](~poisoned)
    /\ [](\A w \in WorkerIds :
            /\ handler[w] # "Err"
            /\ TERMINATED(w) => handler[w] = "Ok")
    /\ [][\A w \in WorkerIds :
            (pc[w] = "lock" /\ pc'[w] # "lock") => (pc'[w] = "recv" /\ lock' = w)]_vars
    /\ [][(poolPc = "join" /\ poolPc' = "drop") => handler[joining] = "Ok"]_vars

C25_Witness ==
    /\ poolPc = "done"
    /\ size >= 2
    /\ Cardinality(Panicked) >= 2
    /\ \E j \in JobIds : result[j] = "returned"
    /\ \A w \in WorkerIds : w < size => handler[w] = "Ok"

(* C22: a worker that runs a job whose body never returns stays in that    *)
(* job at every step (nothing cancels it), and Drop has not returned       *)
(* while there is such a worker. While there are more workers than hung    *)
(* ones, the others go on: again and again every accepted job has been     *)
(* started and every accepted job that can end has ended, and once the     *)
(* sender is gone every worker that is not hung has terminated.            *)
HungWorkers == {w \in WorkerIds : EXECUTING(w) /\ job[w] \in hangs}

C22_HungJobHoldsWorker ==
    /\ [][\A w \in HungWorkers : pc'[w] = "running" /\ job'[w] = job[w]]_vars
    /\ [](HungWorkers # {} => poolPc # "done")
    /\ []<>(/\ Cardinality(HungWorkers) < size =>
                 \A j \in JobIds : submitted[j] = "Ok" =>
                   /\ runs[j] = 1
                   /\ j \notin hangs => j \in Finished
            /\ ~sender =>
                 \A w \in WorkerIds : w < size => (TERMINATED(w) \/ w \in HungWorkers))

C22_Witness ==
    /\ poolPc = "join"
    /\ HungWorkers = {joining}
    /\ size >= 2
    /\ queue = << >>
    /\ \A w \in WorkerIds : (w < size /\ w # joining) => TERMINATED(w)
    /\ Cardinality(Finished) = MaxJobs - 1

(* C24: in main every one of the five execute calls returns Ok, and when   *)
(* "Goodbye" is logged each of the five jobs has been run once and has     *)
(* returned and each of the four worker threads has ended and been joined. *)
C24_DemoMain ==
    /\ \A j \in MainWords : submitted[j] # "Err"
    /\ poolPc = "goodbye" =>
         /\ \A j \in MainWords :
              submitted[j] = "Ok" /\ runs[j] = 1 /\ result[j] = "returned"
         /\ \A w \in MainWorkers : TERMINATED(w) /\ handler[w] = "Ok"
         /\ workers = << >>

C24_Witness ==
    /\ poolPc = "goodbye"
    /\ Len(queue) = 0
    /\ \A j \in MainWords : submitted[j] = "Ok"

(* C26: quicksort_hoare comes to its end on every array, never exhausting  *)
(* the stack or panicking, and then the array is in ascending order and    *)
(* holds each value as often as the input does.                            *)
IsSorted(arr) == \A k \in 1 .. Len(arr) - 1 : arr[k] <= arr[k + 1]

IsPermutation(a, b) ==
    /\ Len(a) = Len(b)
    /\ \A v \in 1 .. MaxValue :
         Cardinality({k \in DOMAIN a : a[k] = v})
           = Cardinality({k \in DOMAIN b : b[k] = v})

C26_HoareSorts ==
    /\ qs.pc \notin {"overflow", "panic"}
    /\ qs.pc = "done" => IsSorted(qs.arr) /\ IsPermutation(qs.arr, qs.input)
====
